---- MODULE Spec2Model ----
(***************************************************************************)
(* Verification model of the transfer programs of this repository:         *)
(*   - the bulk transfer program (src/bulk-sol-transfer.go): main fans out *)
(*     one executeTransfer goroutine per configured transfer, a closer     *)
(*     goroutine closes the results channel after wg.Wait(), main ranges   *)
(*     over the channel and prints statistics;                             *)
(*   - the multi-wallet CLI (src/solana-geyser-subscription.go, Rust       *)
(*     part): execute_transfers / execute_single_transfer;                 *)
(*   - the block subscription program (src/solana-geyser-subscription.go,  *)
(*     Go part): main waits for a signal while a goroutine receives stream *)
(*     updates and calls sendTransaction for every slot update.            *)
(* Calls into the RPC client and the solana library are modelled by their  *)
(* signatures: a call that returns (value, error) may return either, a     *)
(* call that returns only a value returns a value.                         *)
(***************************************************************************)
EXTENDS Integers, Sequences, FiniteSets, TLC

(* ------------------------------ bounds --------------------------------- *)

\* largest number of entries of config.Transfers that is explored
MaxN == 2
\* the count of status queries of one bulk worker is exact below this value
\* and saturates at it (the loop of executeTransfer itself has no bound)
MaxQueries == 2

(* --------------------------- configuration ----------------------------- *)

\* from_private_key: well formed, not base64, or base64 of the wrong length
KeyKinds == {"ok", "badEncoding", "badLength"}
\* the keys executeTransfer tells apart: base64.StdEncoding.DecodeString is
\* its only check of the key
DecodeKinds == {"ok", "badEncoding"}
\* to_address: base58 public key or not
AddrKinds == {"ok", "bad"}

\* TransferInstruction; the i-th entry of the list carries amount i
TransferInstruction(k, a, amt) ==
    [FromPrivateKey |-> k, ToAddress |-> a, Amount |-> amt]

TransferLists(n, keys) ==
    { [i \in 1..n |-> TransferInstruction(f[i][1], f[i][2], i)] :
        f \in [1..n -> keys \X AddrKinds] }

\* TransferResult{Amount: transfer.Amount}: every other field at its zero value
NewResult(amt) ==
    [FromAccount |-> "", ToAccount |-> "", Amount |-> amt, Signature |-> "",
     Status |-> "", ProcessingTime |-> 0, Error |-> "nil"]

\* account.PublicKey().String(): NewAccountFromPrivateKeyBytes returns no error,
\* so a key of the wrong length yields some public key as well
AccountOf(k) == IF k = "ok" THEN "source" ELSE "garbage"

VARIABLES
    transfers,            \* config.Transfers
    proc,                 \* the process: running, exit0, exit1, panicked, killed
    pcMain,               \* position of main
    spawned,              \* number of goroutines started by the loop at line 193
    wg,                   \* sync.WaitGroup counter
    results,              \* buffered channel results (content, oldest first)
    closed,               \* close(results) has happened
    pcCloser,             \* position of the goroutine of lines 199-202
    wpc,                  \* position of each executeTransfer goroutine
    wres,                 \* the local variable result of each goroutine
    nBlockhash,           \* GetRecentBlockhash calls issued per transfer
    nSend,                \* SendTransactionWithOpts calls issued per transfer
    nStatus,              \* GetSignatureStatuses calls issued per transfer
    nSent,                \* sends on the results channel per goroutine
    presentAt,            \* number of the status query that returned the first
                          \* present status (0: none so far)
    lastAnswer,           \* the last answer to the goroutine's status query
    allResults,           \* main: allResults
    successCount,         \* main: successCount
    failCount,            \* main: failCount
    totalProcessingTime,  \* main: totalProcessingTime
    minTime,              \* main: minTime
    maxTime,              \* main: maxTime
    avgProcessingTime,    \* main: avgProcessingTime
    report,               \* what main has printed after the loop
    pollingAtInterrupt    \* goroutines that were in the poll loop when the
                          \* operator interrupt arrived

workerVars == <<wpc, wres, nBlockhash, nSend, nStatus, nSent, presentAt, lastAnswer>>
chanVars   == <<results, closed, wg, pcCloser>>
statVars   == <<allResults, successCount, failCount, totalProcessingTime,
                minTime, maxTime, avgProcessingTime, report>>
bulkVars   == <<transfers, proc, pcMain, spawned, workerVars, chanVars,
                statVars, pollingAtInterrupt>>

VARIABLES
    cproc,          \* the CLI process: off, running, exit0, panicked
    fromWallets,    \* wallet_config.from_wallets
    toWallets,      \* wallet_config.to_wallets
    cpcMain,        \* position of execute_transfers / main
    ci,             \* loop index i of execute_transfers (0-based)
    tasks,          \* transfer_tasks: one record per spawned task
    cliResults,     \* the vector returned by execute_transfers
    success_count,  \* main: success_count
    total_time,     \* main: total_time
    avg_time,       \* main: avg_time (-1: not computed)
    cliReport       \* what main has printed

cliVars == <<cproc, fromWallets, toWallets, cpcMain, ci, tasks, cliResults,
             success_count, total_time, avg_time, cliReport>>

\* the block subscription process, one record:
\*   proc          off, running, exited, panicked
\*   config        kinds of config.PrivateKey and config.RecipientAddr
\*   pcMain        position of main
\*   pcRecv        position of the goroutine of lines 108-130
\*   signalCh      number of signals buffered in signalCh (capacity 1)
\*   connClosed    conn.Close() has run
\*   ctxCancelled  cancel() has run
\*   received      the updates stream.Recv has returned, oldest first
\*   attempts      the slots sendTransaction has been called for, in order
\*   outcomes      what each finished sendTransaction call returned
\*   nBlockhash    GetRecentBlockhash calls issued
\*   nSend         SendTransactionWithOpts calls issued
\*   lateStarts    sendTransaction calls begun after cancellation
VARIABLE geyser

geyserVars == <<geyser>>

N == Len(transfers)
Workers == 1..N

\* the state of main at line 192, for a configuration whose keys are of the
\* kinds keys
InitBulkOver(keys) ==
    /\ transfers \in UNION { TransferLists(n, keys) : n \in 0..MaxN }
    /\ proc = "running"
    /\ pcMain = "spawn"
    /\ spawned = 0
    /\ wg = 0
    /\ results = <<>>
    /\ closed = FALSE
    /\ pcCloser = "none"
    /\ wpc = [i \in 1..Len(transfers) |-> "idle"]
    /\ wres = [i \in 1..Len(transfers) |-> NewResult(transfers[i].Amount)]
    /\ nBlockhash = [i \in 1..Len(transfers) |-> 0]
    /\ nSend = [i \in 1..Len(transfers) |-> 0]
    /\ nStatus = [i \in 1..Len(transfers) |-> 0]
    /\ nSent = [i \in 1..Len(transfers) |-> 0]
    /\ presentAt = [i \in 1..Len(transfers) |-> 0]
    /\ lastAnswer = [i \in 1..Len(transfers) |-> "none"]
    /\ allResults = <<>>
    /\ successCount = 0
    /\ failCount = 0
    /\ totalProcessingTime = 0
    /\ minTime = 0
    /\ maxTime = 0
    /\ avgProcessingTime = 0
    /\ report = "none"
    /\ pollingAtInterrupt = {}

InitBulk == InitBulkOver(DecodeKinds)

(* --------------------------- executeTransfer --------------------------- *)

\* Deliver with the send left out: the goroutine returns without a result
DeliverDropped(i, r) ==
    /\ wres' = [wres EXCEPT ![i] = r]
    /\ wpc' = [wpc EXCEPT ![i] = "deferred"]
    /\ UNCHANGED <<results, nSent, proc>>

\* results <- result; return.  The channel has capacity len(config.Transfers);
\* a send on a full channel blocks, a send on a closed channel panics.
Deliver(i, r) ==
    /\ Len(results) < N \/ closed
    /\ wres' = [wres EXCEPT ![i] = r]
    /\ IF closed
         THEN /\ proc' = "panicked"
              /\ UNCHANGED <<results, nSent, wpc>>
         ELSE /\ results' = Append(results, r)
              /\ nSent' = [nSent EXCEPT ![i] = @ + 1]
              /\ wpc' = [wpc EXCEPT ![i] = "deferred"]
              /\ UNCHANGED proc

\* Validate that ends the process on a malformed key or address (log.Fatalf)
\* instead of delivering a failure result
ValidateFatal(i) ==
    /\ proc = "running"
    /\ UNCHANGED <<cliVars, geyserVars>>
    /\ i \in Workers
    /\ wpc[i] = "validate"
    /\ LET t == transfers[i]
           r1 == [wres[i] EXCEPT !.FromAccount = AccountOf(t.FromPrivateKey)]
       IN  IF t.FromPrivateKey = "badEncoding" \/ t.ToAddress = "bad"
             THEN /\ proc' = "exit1"
                  /\ UNCHANGED <<wres, wpc, results, nSent>>
           ELSE /\ wres' = [wres EXCEPT ![i] = [r1 EXCEPT !.ToAccount = "destination"]]
                /\ wpc' = [wpc EXCEPT ![i] = "blockhash"]
                /\ UNCHANGED <<results, nSent, proc>>
    /\ UNCHANGED <<transfers, pcMain, spawned, nBlockhash, nSend, nStatus,
                   presentAt, lastAnswer, closed, wg, pcCloser, statVars, pollingAtInterrupt>>

\* lines 64-83: decode the key, derive the account, parse the destination
Validate(i) ==
    /\ proc = "running"
    /\ UNCHANGED <<cliVars, geyserVars>>
    /\ i \in Workers
    /\ wpc[i] = "validate"
    /\ LET t == transfers[i]
           r1 == [wres[i] EXCEPT !.FromAccount = AccountOf(t.FromPrivateKey)]
       IN  IF t.FromPrivateKey = "badEncoding"
             THEN Deliver(i, [wres[i] EXCEPT !.Error = "decode"])
           ELSE IF t.ToAddress = "bad"
             THEN Deliver(i, [r1 EXCEPT !.Error = "address"])
           ELSE /\ wres' = [wres EXCEPT ![i] = [r1 EXCEPT !.ToAccount = "destination"]]
                /\ wpc' = [wpc EXCEPT ![i] = "blockhash"]
                /\ UNCHANGED <<results, nSent, proc>>
    /\ UNCHANGED <<transfers, pcMain, spawned, nBlockhash, nSend, nStatus,
                   presentAt, lastAnswer, closed, wg, pcCloser, statVars, pollingAtInterrupt>>

\* GetBlockhash without the return: the error is recorded and the worker
\* goes on to build and submit
GetBlockhashNoReturn(i) ==
    /\ proc = "running"
    /\ UNCHANGED <<cliVars, geyserVars>>
    /\ i \in Workers
    /\ wpc[i] = "blockhash"
    /\ nBlockhash' = [nBlockhash EXCEPT ![i] = @ + 1]
    /\ \E ok \in BOOLEAN :
         /\ wres' = [wres EXCEPT ![i] =
                        IF ok THEN @ ELSE [@ EXCEPT !.Error = "blockhash"]]
         /\ wpc' = [wpc EXCEPT ![i] = "send"]
         /\ UNCHANGED <<results, nSent, proc>>
    /\ UNCHANGED <<transfers, pcMain, spawned, nSend, nStatus,
                   presentAt, lastAnswer, closed, wg, pcCloser, statVars, pollingAtInterrupt>>

\* lines 85-91: client.GetRecentBlockhash
GetBlockhash(i) ==
    /\ proc = "running"
    /\ UNCHANGED <<cliVars, geyserVars>>
    /\ i \in Workers
    /\ wpc[i] = "blockhash"
    /\ nBlockhash' = [nBlockhash EXCEPT ![i] = @ + 1]
    /\ \E ok \in BOOLEAN :
         IF ok
           THEN /\ wpc' = [wpc EXCEPT ![i] = "send"]
                /\ UNCHANGED <<wres, results, nSent, proc>>
           ELSE Deliver(i, [wres[i] EXCEPT !.Error = "blockhash"])
    /\ UNCHANGED <<transfers, pcMain, spawned, nSend, nStatus,
                   presentAt, lastAnswer, closed, wg, pcCloser, statVars, pollingAtInterrupt>>

\* SendTransaction that copies the returned signature into the result before
\* looking at err
SendTransactionSigFirst(i) ==
    /\ proc = "running"
    /\ UNCHANGED <<cliVars, geyserVars>>
    /\ i \in Workers
    /\ wpc[i] = "send"
    /\ \E out \in {"create", "sign", "send", "ok"} :
         /\ nSend' = [nSend EXCEPT ![i] = IF out \in {"send", "ok"} THEN @ + 1 ELSE @]
         /\ CASE out = "ok" ->
                   /\ wres' = [wres EXCEPT ![i] = [@ EXCEPT !.Signature = "sig"]]
                   /\ wpc' = [wpc EXCEPT ![i] = "poll"]
                   /\ UNCHANGED <<results, nSent, proc>>
              [] out = "send" ->
                   Deliver(i, [wres[i] EXCEPT !.Signature = "sig", !.Error = out])
              [] OTHER ->
                   Deliver(i, [wres[i] EXCEPT !.Error = out])
    /\ UNCHANGED <<transfers, pcMain, spawned, nBlockhash, nStatus,
                   presentAt, lastAnswer, closed, wg, pcCloser, statVars, pollingAtInterrupt>>

\* SendTransaction that submits again when the submission call fails
SendTransactionRetry(i) ==
    /\ proc = "running"
    /\ UNCHANGED <<cliVars, geyserVars>>
    /\ i \in Workers
    /\ wpc[i] = "send"
    /\ \E out \in {"create", "sign", "send", "ok"} :
         /\ nSend' = [nSend EXCEPT ![i] = IF out \in {"send", "ok"} THEN @ + 1 ELSE @]
         /\ CASE out = "ok" ->
                   /\ wres' = [wres EXCEPT ![i] = [@ EXCEPT !.Signature = "sig"]]
                   /\ wpc' = [wpc EXCEPT ![i] = "poll"]
                   /\ UNCHANGED <<results, nSent, proc>>
              [] out = "send" ->
                   UNCHANGED <<wres, wpc, results, nSent, proc>>
              [] OTHER ->
                   Deliver(i, [wres[i] EXCEPT !.Error = out])
    /\ UNCHANGED <<transfers, pcMain, spawned, nBlockhash, nStatus,
                   presentAt, lastAnswer, closed, wg, pcCloser, statVars, pollingAtInterrupt>>

\* lines 93-141: solana.NewTransaction, tx.Sign (both local) and, when they
\* succeed, client.SendTransactionWithOpts
SendTransaction(i) ==
    /\ proc = "running"
    /\ UNCHANGED <<cliVars, geyserVars>>
    /\ i \in Workers
    /\ wpc[i] = "send"
    /\ \E out \in {"create", "sign", "send", "ok"} :
         /\ nSend' = [nSend EXCEPT ![i] = IF out \in {"send", "ok"} THEN @ + 1 ELSE @]
         /\ IF out = "ok"
              THEN /\ wres' = [wres EXCEPT ![i] = [@ EXCEPT !.Signature = "sig"]]
                   /\ wpc' = [wpc EXCEPT ![i] = "poll"]
                   /\ UNCHANGED <<results, nSent, proc>>
              ELSE Deliver(i, [wres[i] EXCEPT !.Error = out])
    /\ UNCHANGED <<transfers, pcMain, spawned, nBlockhash, nStatus,
                   presentAt, lastAnswer, closed, wg, pcCloser, statVars, pollingAtInterrupt>>

\* the answers of client.GetSignatureStatuses: a transport error, no status
\* yet (Value[0] == nil), a status without Err, a status with Err
StatusAnswers == {"error", "absent", "confirmed", "errored"}

Bump(n) == IF n < MaxQueries THEN n + 1 ELSE MaxQueries

\* time.Since(startTime) of a worker that has made q status queries.  Time is
\* counted in rounds of the status loop: every round takes one unit.
Elapsed(q) == q

\* PollBranch without the break: a present status is recorded and the loop
\* goes on to the sleep and the next query
PollBranchNoBreak(i, ans, d) ==
    CASE ans = "error" ->
           Deliver(i, [wres[i] EXCEPT !.Error = "status"])
      [] ans = "absent" ->
           /\ wpc' = [wpc EXCEPT ![i] = "sleep"]
           /\ UNCHANGED <<wres, results, nSent, proc>>
      [] ans = "errored" ->
           /\ wres' = [wres EXCEPT ![i] = [@ EXCEPT !.Status = "Failed",
                                                    !.Error = "txfailed"]]
           /\ wpc' = [wpc EXCEPT ![i] = "sleep"]
           /\ UNCHANGED <<results, nSent, proc>>
      [] ans = "confirmed" ->
           /\ wres' = [wres EXCEPT ![i] = [@ EXCEPT !.Status = "Confirmed"]]
           /\ wpc' = [wpc EXCEPT ![i] = "sleep"]
           /\ UNCHANGED <<results, nSent, proc>>

\* PollBranch that does not look at status.Value[0].Err: every present status
\* counts as confirmed
PollBranchErrIgnored(i, ans, d) ==
    CASE ans = "error" ->
           Deliver(i, [wres[i] EXCEPT !.Error = "status"])
      [] ans = "absent" ->
           /\ wpc' = [wpc EXCEPT ![i] = "sleep"]
           /\ UNCHANGED <<wres, results, nSent, proc>>
      [] ans \in {"errored", "confirmed"} ->
           Deliver(i, [wres[i] EXCEPT !.Status = "Confirmed",
                                      !.ProcessingTime = d])

\* lines 149-170: what one iteration does with the answer ans; d is the value
\* of time.Since(startTime)
PollBranch(i, ans, d) ==
    CASE ans = "error" ->
           Deliver(i, [wres[i] EXCEPT !.Error = "status"])
      [] ans = "absent" ->
           /\ wpc' = [wpc EXCEPT ![i] = "sleep"]
           /\ UNCHANGED <<wres, results, nSent, proc>>
      [] ans = "errored" ->
           Deliver(i, [wres[i] EXCEPT !.Status = "Failed",
                                      !.Error = "txfailed",
                                      !.ProcessingTime = d])
      [] ans = "confirmed" ->
           Deliver(i, [wres[i] EXCEPT !.Status = "Confirmed",
                                      !.ProcessingTime = d])

\* lines 144-170: one iteration of the status loop.  A transport error ends
\* the worker at once; a present status sets Status (and Error), then
\* result.ProcessingTime = time.Since(startTime) and the result is sent; an
\* absent status leads to the sleep.
PollStatus(i) ==
    /\ proc = "running"
    /\ UNCHANGED <<cliVars, geyserVars>>
    /\ i \in Workers
    /\ wpc[i] = "poll"
    /\ nStatus' = [nStatus EXCEPT ![i] = Bump(@)]
    /\ \E ans \in StatusAnswers :
         /\ lastAnswer' = [lastAnswer EXCEPT ![i] = ans]
         /\ presentAt' = [presentAt EXCEPT ![i] =
                              IF ans \in {"confirmed", "errored"} /\ @ = 0
                                THEN Bump(nStatus[i]) ELSE @]
         /\ PollBranch(i, ans, Elapsed(Bump(nStatus[i])))
    /\ UNCHANGED <<transfers, pcMain, spawned, nBlockhash, nSend,
                   closed, wg, pcCloser, statVars, pollingAtInterrupt>>

\* lines 165-166: time.Sleep(500 * time.Millisecond), then the next iteration
Sleep(i) ==
    /\ proc = "running"
    /\ UNCHANGED <<cliVars, geyserVars>>
    /\ i \in Workers
    /\ wpc[i] = "sleep"
    /\ wpc' = [wpc EXCEPT ![i] = "poll"]
    /\ UNCHANGED <<transfers, proc, pcMain, spawned, wres, nBlockhash, nSend,
                   nStatus, nSent, presentAt, lastAnswer, chanVars, statVars,
                   pollingAtInterrupt>>

\* line 56: defer wg.Done(), run when executeTransfer returns
WgDone(i) ==
    /\ proc = "running"
    /\ UNCHANGED <<cliVars, geyserVars>>
    /\ i \in Workers
    /\ wpc[i] = "deferred"
    /\ wg' = wg - 1
    /\ wpc' = [wpc EXCEPT ![i] = "exited"]
    /\ UNCHANGED <<transfers, proc, pcMain, spawned, wres, nBlockhash, nSend,
                   nStatus, nSent, presentAt, lastAnswer, results, closed,
                   pcCloser, statVars, pollingAtInterrupt>>

WorkerStep(i) ==
    \/ Validate(i)
    \/ GetBlockhash(i)
    \/ SendTransaction(i)
    \/ PollStatus(i)
    \/ Sleep(i)
    \/ WgDone(i)

(* -------------------------------- main --------------------------------- *)

\* Spawn that starts a goroutine only when the one before has finished
SpawnSerial ==
    /\ proc = "running"
    /\ UNCHANGED <<cliVars, geyserVars>>
    /\ pcMain = "spawn"
    /\ spawned < N
    /\ wg = 0
    /\ wg' = wg + 1
    /\ spawned' = spawned + 1
    /\ wpc' = [wpc EXCEPT ![spawned + 1] = "validate"]
    /\ UNCHANGED <<transfers, proc, pcMain, wres, nBlockhash, nSend, nStatus,
                   nSent, presentAt, lastAnswer, results, closed, pcCloser, statVars,
                   pollingAtInterrupt>>

\* lines 193-196: wg.Add(1); go executeTransfer(...)
Spawn ==
    /\ proc = "running"
    /\ UNCHANGED <<cliVars, geyserVars>>
    /\ pcMain = "spawn"
    /\ spawned < N
    /\ wg' = wg + 1
    /\ spawned' = spawned + 1
    /\ wpc' = [wpc EXCEPT ![spawned + 1] = "validate"]
    /\ UNCHANGED <<transfers, proc, pcMain, wres, nBlockhash, nSend, nStatus,
                   nSent, presentAt, lastAnswer, results, closed, pcCloser, statVars,
                   pollingAtInterrupt>>

\* StartCloser placed before the loop at line 193: the closing goroutine may
\* run wg.Wait() before any wg.Add(1)
StartCloserFirst ==
    /\ proc = "running"
    /\ UNCHANGED <<cliVars, geyserVars>>
    /\ pcMain = "spawn"
    /\ \/ /\ pcCloser = "none"
          /\ pcCloser' = "wait"
          /\ UNCHANGED pcMain
       \/ /\ pcCloser # "none"
          /\ spawned = N
          /\ pcMain' = "collect"
          /\ UNCHANGED pcCloser
    /\ UNCHANGED <<transfers, proc, spawned, workerVars, results, closed, wg,
                   statVars, pollingAtInterrupt>>

\* lines 199-202: go func() { wg.Wait(); close(results) }()
StartCloser ==
    /\ proc = "running"
    /\ UNCHANGED <<cliVars, geyserVars>>
    /\ pcMain = "spawn"
    /\ spawned = N
    /\ pcCloser' = "wait"
    /\ pcMain' = "collect"
    /\ UNCHANGED <<transfers, proc, spawned, workerVars, results, closed, wg,
                   statVars, pollingAtInterrupt>>

\* CloserWait without the wait: the channel is closed as soon as the closer runs
CloserWaitNoBarrier ==
    /\ proc = "running"
    /\ UNCHANGED <<cliVars, geyserVars>>
    /\ pcCloser = "wait"
    /\ pcCloser' = "close"
    /\ UNCHANGED <<transfers, proc, pcMain, spawned, workerVars, results,
                   closed, wg, statVars, pollingAtInterrupt>>

\* line 200: wg.Wait() returns when the counter is zero
CloserWait ==
    /\ proc = "running"
    /\ UNCHANGED <<cliVars, geyserVars>>
    /\ pcCloser = "wait"
    /\ wg = 0
    /\ pcCloser' = "close"
    /\ UNCHANGED <<transfers, proc, pcMain, spawned, workerVars, results,
                   closed, wg, statVars, pollingAtInterrupt>>

\* line 201: close(results)
CloserClose ==
    /\ proc = "running"
    /\ UNCHANGED <<cliVars, geyserVars>>
    /\ pcCloser = "close"
    /\ closed' = TRUE
    /\ pcCloser' = "done"
    /\ UNCHANGED <<transfers, proc, pcMain, spawned, workerVars, results, wg,
                   statVars, pollingAtInterrupt>>

\* lines 213-240: one iteration of for result := range results
Collect ==
    /\ proc = "running"
    /\ UNCHANGED <<cliVars, geyserVars>>
    /\ pcMain = "collect"
    /\ Len(results) > 0
    /\ LET result == Head(results)
           min1 == IF minTime = 0 THEN result.ProcessingTime ELSE minTime
       IN  /\ results' = Tail(results)
           /\ allResults' = Append(allResults, result)
           /\ minTime' = IF result.ProcessingTime < min1
                           THEN result.ProcessingTime ELSE min1
           /\ maxTime' = IF result.ProcessingTime > maxTime
                           THEN result.ProcessingTime ELSE maxTime
           /\ totalProcessingTime' = totalProcessingTime + result.ProcessingTime
           /\ IF result.Error # "nil"
                THEN failCount' = failCount + 1 /\ UNCHANGED successCount
                ELSE successCount' = successCount + 1 /\ UNCHANGED failCount
    /\ UNCHANGED <<transfers, proc, pcMain, spawned, workerVars, closed, wg,
                   pcCloser, avgProcessingTime, report, pollingAtInterrupt>>

\* line 213: the range loop ends when the channel is closed and drained
CollectEnd ==
    /\ proc = "running"
    /\ UNCHANGED <<cliVars, geyserVars>>
    /\ pcMain = "collect"
    /\ Len(results) = 0
    /\ closed
    /\ pcMain' = "stats"
    /\ UNCHANGED <<transfers, proc, spawned, workerVars, chanVars, statVars,
                   pollingAtInterrupt>>

\* lines 242-255: the average is an integer division by len(config.Transfers);
\* Go panics on an integer division by zero
Statistics ==
    /\ proc = "running"
    /\ UNCHANGED <<cliVars, geyserVars>>
    /\ pcMain = "stats"
    /\ IF N = 0
         THEN /\ proc' = "panicked"
              /\ UNCHANGED <<pcMain, avgProcessingTime, report>>
         ELSE /\ avgProcessingTime' = totalProcessingTime \div N
              /\ report' = "numeric"
              /\ pcMain' = "exit"
              /\ UNCHANGED proc
    /\ UNCHANGED <<transfers, spawned, workerVars, chanVars, allResults,
                   successCount, failCount, totalProcessingTime, minTime,
                   maxTime, pollingAtInterrupt>>

\* Exit with the test failCount > 1
ExitOffByOne ==
    /\ proc = "running"
    /\ UNCHANGED <<cliVars, geyserVars>>
    /\ pcMain = "exit"
    /\ proc' = IF failCount > 1 THEN "exit1" ELSE "exit0"
    /\ pcMain' = "done"
    /\ UNCHANGED <<transfers, spawned, workerVars, chanVars, statVars,
                   pollingAtInterrupt>>

\* lines 257-261: os.Exit(1) if any transaction failed, else return from main
Exit ==
    /\ proc = "running"
    /\ UNCHANGED <<cliVars, geyserVars>>
    /\ pcMain = "exit"
    /\ proc' = IF failCount > 0 THEN "exit1" ELSE "exit0"
    /\ pcMain' = "done"
    /\ UNCHANGED <<transfers, spawned, workerVars, chanVars, statVars,
                   pollingAtInterrupt>>

MainStep == Spawn \/ StartCloser \/ Collect \/ CollectEnd \/ Statistics \/ Exit

CloserStep == CloserWait \/ CloserClose

\* the exit status of the process
ExitCode ==
    CASE proc = "exit0" -> 0
      [] proc = "exit1" -> 1
      [] proc = "panicked" -> 2
      [] OTHER -> -1

\* the operator interrupts the process (SIGINT/SIGTERM).  The program installs
\* no signal handler and passes context.Background() to every call, so the
\* runtime ends the process at once; no goroutine observes anything.
Interrupt ==
    /\ proc = "running"
    /\ UNCHANGED <<cliVars, geyserVars>>
    /\ proc' = "killed"
    /\ pollingAtInterrupt' = { i \in Workers : wpc[i] = "sleep" }
    /\ UNCHANGED <<transfers, pcMain, spawned, workerVars, chanVars, statVars>>

NextBulk == MainStep \/ CloserStep \/ \E i \in 1..MaxN : WorkerStep(i)

(* ------------------------- multi-wallet CLI ---------------------------- *)

\* largest from_wallets and to_wallets lists that are explored
MaxSources == 1
MaxDests == 2
\* largest from_wallets list for which the loop of execute_transfers alone (the
\* pairing, without running the tasks) is explored
MaxPairSources == 3

\* let max_retries = 20
max_retries == 20
\* sleep(Duration::from_millis(500))
PollIntervalMs == 500

WalletInfo(addr, kp) == [address |-> addr, keypair_path |-> kp]

FromWalletLists(n) ==
    { [i \in 1..n |-> WalletInfo(<<"src", i>>, kp[i])] :
        kp \in [1..n -> {"Some", "None"}] }

ToWalletList(n) == [j \in 1..n |-> WalletInfo(<<"dst", j>>, "None")]

allVars == <<bulkVars, cliVars, geyserVars>>

\* the state at the call of execute_transfers, for at most maxS source wallets
InitCliOver(maxS) ==
    /\ cproc = "running"
    /\ fromWallets \in UNION { FromWalletLists(n) : n \in 0..maxS }
    /\ toWallets \in { ToWalletList(n) : n \in 0..MaxDests }
    /\ cpcMain = "spawn"
    /\ ci = 0
    /\ tasks = <<>>
    /\ cliResults = <<>>
    /\ success_count = 0
    /\ total_time = 0
    /\ avg_time = -1
    /\ cliReport = "none"

InitCli == InitCliOver(MaxSources)

\* the state of a task that tokio::spawn has just created
NewTask(from, to) ==
    [from |-> from, to |-> to, pc |-> "start", queries |-> 0, waits |-> 0,
     waitedMs |-> 0, nBlockhash |-> 0, nSend |-> 0, presentAt |-> 0,
     lastAnswer |-> "none", outcome |-> "none", signature |-> "", time |-> 0]

\* CliSpawn that falls back to the last destination instead of the first
CliSpawnLast ==
    /\ cproc = "running"
    /\ cpcMain = "spawn"
    /\ ci < Len(fromWallets)
    /\ LET from_wallet == fromWallets[ci + 1]
       IN  IF ci >= Len(toWallets) /\ Len(toWallets) = 0
             THEN \* &config.to_wallets[0] on an empty vector
                  /\ cproc' = "panicked"
                  /\ UNCHANGED <<ci, tasks>>
             ELSE LET to_wallet == IF ci < Len(toWallets)
                                     THEN toWallets[ci + 1]
                                     ELSE toWallets[Len(toWallets)]
                  IN  /\ ci' = ci + 1
                      /\ tasks' = IF from_wallet.keypair_path = "None"
                                    THEN tasks
                                    ELSE Append(tasks, NewTask(from_wallet.address,
                                                               to_wallet.address))
                      /\ UNCHANGED cproc
    /\ UNCHANGED <<fromWallets, toWallets, cpcMain, cliResults, success_count,
                   total_time, avg_time, cliReport, bulkVars, geyserVars>>

\* lines 378-429: one iteration of the loop over from_wallets
CliSpawn ==
    /\ cproc = "running"
    /\ cpcMain = "spawn"
    /\ ci < Len(fromWallets)
    /\ LET from_wallet == fromWallets[ci + 1]
       IN  IF ci >= Len(toWallets) /\ Len(toWallets) = 0
             THEN \* &config.to_wallets[0] on an empty vector
                  /\ cproc' = "panicked"
                  /\ UNCHANGED <<ci, tasks>>
             ELSE LET to_wallet == IF ci < Len(toWallets)
                                     THEN toWallets[ci + 1] ELSE toWallets[1]
                  IN  /\ ci' = ci + 1
                      /\ tasks' = IF from_wallet.keypair_path = "None"
                                    THEN tasks
                                    ELSE Append(tasks, NewTask(from_wallet.address,
                                                               to_wallet.address))
                      /\ UNCHANGED cproc
    /\ UNCHANGED <<fromWallets, toWallets, cpcMain, cliResults, success_count,
                   total_time, avg_time, cliReport, bulkVars, geyserVars>>

SetTask(t, r) == tasks' = [tasks EXCEPT ![t] = r]

\* lines 446-471: read the keypair file, parse both addresses, compare the
\* public keys, then client.get_latest_blockhash()
CliStart(t) ==
    /\ cproc = "running"
    /\ t \in 1..Len(tasks)
    /\ tasks[t].pc = "start"
    /\ \E out \in {"keypair", "fromaddr", "toaddr", "mismatch", "blockhash", "ok"} :
         SetTask(t, [tasks[t] EXCEPT
            !.nBlockhash = IF out \in {"blockhash", "ok"} THEN @ + 1 ELSE @,
            !.pc = IF out = "ok" THEN "send" ELSE "done",
            !.outcome = IF out = "ok" THEN @ ELSE out])
    /\ UNCHANGED <<cproc, fromWallets, toWallets, cpcMain, ci, cliResults,
                   success_count, total_time, avg_time, cliReport, bulkVars, geyserVars>>

\* lines 473-482: sign, then client.send_transaction
CliSend(t) ==
    /\ cproc = "running"
    /\ t \in 1..Len(tasks)
    /\ tasks[t].pc = "send"
    /\ \E ok \in BOOLEAN :
         SetTask(t, [tasks[t] EXCEPT
            !.nSend = @ + 1,
            !.pc = IF ok THEN "poll" ELSE "done",
            !.signature = IF ok THEN "sig" ELSE @,
            !.outcome = IF ok THEN @ ELSE "send"])
    /\ UNCHANGED <<cproc, fromWallets, toWallets, cpcMain, ci, cliResults,
                   success_count, total_time, avg_time, cliReport, bulkVars, geyserVars>>

\* lines 488-506: one iteration of for _ in 0..max_retries, up to the sleep
CliPoll(t) ==
    /\ cproc = "running"
    /\ t \in 1..Len(tasks)
    /\ tasks[t].pc = "poll"
    /\ \E ans \in StatusAnswers :
         LET q == tasks[t].queries + 1
             r == [tasks[t] EXCEPT !.queries = q, !.lastAnswer = ans]
         IN  CASE ans = "error" ->
                    SetTask(t, [r EXCEPT !.pc = "done", !.outcome = "status"])
               [] ans = "absent" ->
                    SetTask(t, [r EXCEPT !.pc = "sleep"])
               [] ans = "errored" ->
                    SetTask(t, [r EXCEPT !.pc = "done", !.outcome = "txfailed",
                                         !.presentAt = q])
               [] ans = "confirmed" ->
                    \* confirmed = true; break; Ok((signature, elapsed))
                    SetTask(t, [r EXCEPT !.pc = "done", !.outcome = "ok",
                                         !.presentAt = q, !.time = Elapsed(q)])
    /\ UNCHANGED <<cproc, fromWallets, toWallets, cpcMain, ci, cliResults,
                   success_count, total_time, avg_time, cliReport, bulkVars, geyserVars>>

\* CliSleep with the loop running over 0..=max_retries
CliSleepOffByOne(t) ==
    /\ cproc = "running"
    /\ t \in 1..Len(tasks)
    /\ tasks[t].pc = "sleep"
    /\ LET r == [tasks[t] EXCEPT !.waits = @ + 1,
                                 !.waitedMs = @ + PollIntervalMs]
       IN  IF r.queries <= max_retries
             THEN SetTask(t, [r EXCEPT !.pc = "poll"])
             ELSE SetTask(t, [r EXCEPT !.pc = "done", !.outcome = "timeout"])
    /\ UNCHANGED <<cproc, fromWallets, toWallets, cpcMain, ci, cliResults,
                   success_count, total_time, avg_time, cliReport, bulkVars, geyserVars>>

\* lines 498-510: the sleep after an absent status; when that was the last
\* iteration the loop ends with confirmed == false
CliSleep(t) ==
    /\ cproc = "running"
    /\ t \in 1..Len(tasks)
    /\ tasks[t].pc = "sleep"
    /\ LET r == [tasks[t] EXCEPT !.waits = @ + 1,
                                 !.waitedMs = @ + PollIntervalMs]
       IN  IF r.queries < max_retries
             THEN SetTask(t, [r EXCEPT !.pc = "poll"])
             ELSE SetTask(t, [r EXCEPT !.pc = "done", !.outcome = "timeout"])
    /\ UNCHANGED <<cproc, fromWallets, toWallets, cpcMain, ci, cliResults,
                   success_count, total_time, avg_time, cliReport, bulkVars, geyserVars>>

\* lines 408-427: the TransferResult a finished task evaluates to
TaskResult(r) ==
    IF r.outcome = "ok"
      THEN [from |-> r.from, to |-> r.to, signature |-> r.signature,
            success |-> TRUE, processing_time |-> r.time]
      ELSE [from |-> r.from, to |-> r.to, signature |-> "FAILED",
            success |-> FALSE, processing_time |-> 0]

\* lines 431-436: join_all(transfer_tasks).await and the collect
CliJoin ==
    /\ cproc = "running"
    /\ cpcMain = "spawn"
    /\ ci = Len(fromWallets)
    /\ \A t \in 1..Len(tasks) : tasks[t].pc = "done"
    /\ cliResults' = [t \in 1..Len(tasks) |-> TaskResult(tasks[t])]
    /\ cpcMain' = "print"
    /\ UNCHANGED <<cproc, fromWallets, toWallets, ci, tasks, success_count,
                   total_time, avg_time, cliReport, bulkVars, geyserVars>>

RECURSIVE SumTime(_)
SumTime(rs) ==
    IF rs = <<>> THEN 0 ELSE Head(rs).processing_time + SumTime(Tail(rs))

\* lines 339-368: the summary; the average is computed only for a non-empty
\* result vector
CliPrint ==
    /\ cproc = "running"
    /\ cpcMain = "print"
    /\ success_count' = Cardinality({ t \in 1..Len(cliResults) : cliResults[t].success })
    /\ total_time' = SumTime(cliResults)
    /\ IF cliResults # <<>>
         THEN /\ avg_time' = SumTime(cliResults) \div Len(cliResults)
              /\ cliReport' = "summary and average"
         ELSE /\ cliReport' = "summary"
              /\ UNCHANGED avg_time
    /\ cpcMain' = "done"
    /\ cproc' = "exit0"
    /\ UNCHANGED <<fromWallets, toWallets, ci, tasks, cliResults, bulkVars, geyserVars>>

CliTaskStep(t) == CliStart(t) \/ CliSend(t) \/ CliPoll(t) \/ CliSleep(t)

NextCli == CliSpawn \/ CliJoin \/ CliPrint \/ \E t \in 1..MaxSources : CliTaskStep(t)

(* --------------------- block subscription program ---------------------- *)

\* largest number of updates the stream delivers in a run that is explored
MaxUpdates == 2

\* config.PrivateKey after base64 decoding: a buffer of at least 32 bytes, or
\* a shorter one (a key that is not base64 ends main at line 95, before the
\* loop)
SeedKinds == {"ok", "short"}

\* the process with the given configuration at line 105: subscribed, signal
\* handler installed
GeyserStart(cfg) ==
    [proc |-> "running", config |-> cfg, pcMain |-> "wait", pcRecv |-> "recv",
     signalCh |-> 0, connClosed |-> FALSE, ctxCancelled |-> FALSE,
     received |-> <<>>, attempts |-> <<>>, outcomes |-> <<>>,
     nBlockhash |-> 0, nSend |-> 0, lateStarts |-> 0]

InitGeyser ==
    \E cfg \in [PrivateKey : SeedKinds, RecipientAddr : AddrKinds] :
       geyser = GeyserStart(cfg)

\* cancellation has occurred: main has received the operator's signal, or
\* stream.Recv has returned an error
Cancelled == geyser.pcMain # "wait" \/ geyser.pcRecv \in {"cancel", "returned"}

\* the operator sends SIGINT or SIGTERM; signal.Notify does not block, so a
\* signal that finds the channel full is dropped
Signal ==
    /\ geyser.proc = "running"
    /\ geyser.signalCh = 0
    /\ geyser' = [geyser EXCEPT !.signalCh = 1]
    /\ UNCHANGED <<bulkVars, cliVars>>

\* line 133: <-signalCh
MainReceive ==
    /\ geyser.proc = "running"
    /\ geyser.pcMain = "wait"
    /\ geyser.signalCh > 0
    /\ geyser' = [geyser EXCEPT !.signalCh = @ - 1, !.pcMain = "shutdown"]
    /\ UNCHANGED <<bulkVars, cliVars>>

\* line 134: log.Println("Shutting down..."), then main returns
MainShutdown ==
    /\ geyser.proc = "running"
    /\ geyser.pcMain = "shutdown"
    /\ geyser' = [geyser EXCEPT !.pcMain = "closeConn"]
    /\ UNCHANGED <<bulkVars, cliVars>>

\* line 76: defer conn.Close(), the first deferred call to run
MainCloseConn ==
    /\ geyser.proc = "running"
    /\ geyser.pcMain = "closeConn"
    /\ geyser' = [geyser EXCEPT !.connClosed = TRUE, !.pcMain = "cancel"]
    /\ UNCHANGED <<bulkVars, cliVars>>

\* line 60: defer cancel(); main has returned and the process ends, whatever
\* the goroutine is doing
MainCancel ==
    /\ geyser.proc = "running"
    /\ geyser.pcMain = "cancel"
    /\ geyser' = [geyser EXCEPT !.ctxCancelled = TRUE, !.pcMain = "done",
                                !.proc = "exited"]
    /\ UNCHANGED <<bulkVars, cliVars>>

\* what stream.Recv returns: an error, a slot update, an update of another kind
RecvAnswers == {"error", "slot", "other"}

\* the slot update with slot number n
SlotUpdate(n) == [kind |-> "slot", Slot |-> n]
OtherUpdate == [kind |-> "other", Slot |-> 0]

\* lines 110-119: stream.Recv().  An error leads to cancel() and the return;
\* a slot update leads to the call of sendTransaction; any other update leads
\* to the next Recv.  The n-th update carries slot number n.
Recv ==
    /\ geyser.proc = "running"
    /\ geyser.pcRecv = "recv"
    /\ \E ans \in RecvAnswers :
         CASE ans = "error" ->
                geyser' = [geyser EXCEPT !.pcRecv = "cancel"]
           [] ans = "slot" ->
                /\ Len(geyser.received) < MaxUpdates
                /\ geyser' = [geyser EXCEPT
                      !.received = Append(@, SlotUpdate(Len(@) + 1)),
                      !.pcRecv = "call"]
           [] ans = "other" ->
                /\ Len(geyser.received) < MaxUpdates
                /\ geyser' = [geyser EXCEPT !.received = Append(@, OtherUpdate)]
    /\ UNCHANGED <<bulkVars, cliVars>>

\* lines 112-114: log, cancel(), return
RecvCancel ==
    /\ geyser.proc = "running"
    /\ geyser.pcRecv = "cancel"
    /\ geyser' = [geyser EXCEPT !.ctxCancelled = TRUE, !.pcRecv = "returned"]
    /\ UNCHANGED <<bulkVars, cliVars>>

\* lines 122, 139-140: sendTransaction is called for the update just received;
\* privateKeyBytes[:32] panics on a buffer of fewer than 32 bytes
CallSendTransaction ==
    /\ geyser.proc = "running"
    /\ geyser.pcRecv = "call"
    /\ LET slot == geyser.received[Len(geyser.received)].Slot
           g == [geyser EXCEPT
                   !.attempts = Append(@, slot),
                   !.lateStarts = IF Cancelled THEN @ + 1 ELSE @]
       IN  IF geyser.config.PrivateKey = "short"
             THEN geyser' = [g EXCEPT !.proc = "panicked"]
             ELSE geyser' = [g EXCEPT !.pcRecv = "blockhash"]
    /\ UNCHANGED <<bulkVars, cliVars>>

\* lines 143-152: client.GetRecentBlockhash(context.Background(), ...), then
\* solana.PublicKeyFromBase58(recipientAddr)
RecentBlockhash ==
    /\ geyser.proc = "running"
    /\ geyser.pcRecv = "blockhash"
    /\ \E ok \in BOOLEAN :
         LET g == [geyser EXCEPT !.nBlockhash = @ + 1]
         IN  IF ~ok
               THEN geyser' = [g EXCEPT !.outcomes = Append(@, "blockhash"),
                                        !.pcRecv = "recv"]
             ELSE IF geyser.config.RecipientAddr = "bad"
               THEN geyser' = [g EXCEPT !.outcomes = Append(@, "address"),
                                        !.pcRecv = "recv"]
             ELSE geyser' = [g EXCEPT !.pcRecv = "submit"]
    /\ UNCHANGED <<bulkVars, cliVars>>

\* lines 155-197: solana.NewTransaction, tx.Sign and, when they succeed,
\* client.SendTransactionWithOpts(context.Background(), ...); whatever the
\* call returns, the goroutine logs it and goes on to the next Recv
Submit ==
    /\ geyser.proc = "running"
    /\ geyser.pcRecv = "submit"
    /\ \E out \in {"create", "sign", "send", "nil"} :
         geyser' = [geyser EXCEPT
            !.nSend = IF out \in {"send", "nil"} THEN @ + 1 ELSE @,
            !.outcomes = Append(@, out),
            !.pcRecv = "recv"]
    /\ UNCHANGED <<bulkVars, cliVars>>

GeyserMainStep == MainReceive \/ MainShutdown \/ MainCloseConn \/ MainCancel

GeyserRecvStep == Recv \/ RecvCancel \/ CallSendTransaction \/ RecentBlockhash \/ Submit

NextGeyser == Signal \/ GeyserMainStep \/ GeyserRecvStep

(* --------------------------- specifications ---------------------------- *)

\* the program that is not under study has not been started
BulkOff ==
    /\ transfers = <<>>
    /\ proc = "off"
    /\ pcMain = "off"
    /\ spawned = 0
    /\ wg = 0
    /\ results = <<>>
    /\ closed = FALSE
    /\ pcCloser = "none"
    /\ wpc = <<>>
    /\ wres = <<>>
    /\ nBlockhash = <<>>
    /\ nSend = <<>>
    /\ nStatus = <<>>
    /\ nSent = <<>>
    /\ presentAt = <<>>
    /\ lastAnswer = <<>>
    /\ allResults = <<>>
    /\ successCount = 0
    /\ failCount = 0
    /\ totalProcessingTime = 0
    /\ minTime = 0
    /\ maxTime = 0
    /\ avgProcessingTime = 0
    /\ report = "none"
    /\ pollingAtInterrupt = {}

CliOff ==
    /\ cproc = "off"
    /\ fromWallets = <<>>
    /\ toWallets = <<>>
    /\ cpcMain = "off"
    /\ ci = 0
    /\ tasks = <<>>
    /\ cliResults = <<>>
    /\ success_count = 0
    /\ total_time = 0
    /\ avg_time = -1
    /\ cliReport = "none"

GeyserOff ==
    geyser = [GeyserStart([PrivateKey |-> "ok", RecipientAddr |-> "ok"])
                EXCEPT !.proc = "off", !.pcMain = "off", !.pcRecv = "off"]

vars == allVars

\* the bulk transfer program
Init == InitBulk /\ CliOff /\ GeyserOff

Next == NextBulk

Spec == Init /\ [][Next]_vars

\* the bulk transfer program with an operator who may interrupt it
NextInterrupt == Next \/ Interrupt

SpecInterrupt == Init /\ [][NextInterrupt]_vars

\* the bulk transfer program under a fair scheduler: every goroutine that can
\* take a step eventually takes one, and every gateway call returns
FairSpec ==
    /\ Init
    /\ [][Next]_vars
    /\ WF_vars(MainStep)
    /\ WF_vars(CloserStep)
    /\ \A i \in 1..MaxN : WF_vars(WorkerStep(i))

\* the multi-wallet CLI
InitCliOnly == BulkOff /\ InitCli /\ GeyserOff

SpecCli == InitCliOnly /\ [][NextCli]_vars

\* the bulk transfer program run on keys of the wrong length
InitKeyLength == InitBulkOver({"badLength"}) /\ CliOff /\ GeyserOff

\* the block subscription program
InitGeyserOnly == BulkOff /\ CliOff /\ InitGeyser

SpecGeyser == InitGeyserOnly /\ [][NextGeyser]_vars

SpecKeyLength == InitKeyLength /\ [][Next]_vars

\* the loop of execute_transfers alone: the tasks are created, not run
InitPairing == BulkOff /\ InitCliOver(MaxPairSources) /\ GeyserOff

SpecPairing == InitPairing /\ [][CliSpawn]_vars

\* either program
InitAny == Init \/ InitCliOnly

NextAny == Next \/ NextCli

SpecAny == InitAny /\ [][NextAny]_vars

(* ------------------------------ properties ----------------------------- *)

\* executeTransfer of transfer i has returned (only the deferred wg.Done() may
\* still be pending)
Returned(i) == wpc[i] \in {"deferred", "exited"}

\* main has left the loop over the results channel
PastCollect == pcMain \in {"stats", "exit", "done"}

Sent == { i \in Workers : nSent[i] >= 1 }

\* C1: every executeTransfer goroutine sends exactly one TransferResult (none
\* sends twice, and one that has returned has sent one), every result sent is
\* either in the channel or collected, and when main's loop over the channel
\* has ended (on the closed, drained channel) it has received exactly N results.
C1_ExactlyOneResultEach ==
    /\ \A i \in Workers : nSent[i] <= 1 /\ (Returned(i) => nSent[i] = 1)
    /\ Len(allResults) + Len(results) = Cardinality(Sent)
    /\ PastCollect => Len(allResults) = N /\ closed /\ results = <<>>

C1_Witness ==
    /\ N = 2
    /\ pcMain = "done"
    /\ Len(allResults) = 2
    /\ wres[1].Error # "nil"
    /\ wres[2].Error = "nil"

\* C2: under fair scheduling, with every gateway call returning, eventually
\* every worker has delivered its result and main has left the collection
\* loop for the statistics.
C2_EventuallyAllDelivered ==
    <>(PastCollect /\ \A i \in Workers : nSent[i] = 1)

\* a task whose transaction was submitted and whose status queries have all
\* been answered "absent" so far
AllAbsent(r) ==
    /\ r.signature = "sig"
    /\ r.presentAt = 0
    /\ r.outcome # "status"

\* C3: in execute_single_transfer, while every status query of a submitted
\* transaction is answered "absent", one 500 ms wait follows each answer,
\* never more than max_retries = 20 queries are made, and the task ends only
\* after exactly 20 queries and 20 waits, with the timed-out error (not Ok, not
\* the on-chain failure).
C3_TimedOutAfterTwentyQueries ==
    \A t \in 1..Len(tasks) :
      LET r == tasks[t] IN
        /\ r.queries <= max_retries
        /\ r.outcome = "timeout" => AllAbsent(r)
        /\ AllAbsent(r) =>
             /\ r.waitedMs = r.waits * PollIntervalMs
             /\ r.pc = "poll" => r.waits = r.queries
             /\ r.pc = "sleep" => r.waits = r.queries - 1
             /\ r.pc = "done" =>
                  /\ r.outcome = "timeout"
                  /\ r.queries = max_retries
                  /\ r.waits = max_retries
                  /\ TaskResult(r).success = FALSE

C3_Witness ==
    \E t \in 1..Len(tasks) :
      /\ tasks[t].outcome = "timeout"
      /\ tasks[t].queries = 20
      /\ tasks[t].waitedMs = 10000

Malformed(t) == t.FromPrivateKey # "ok" \/ t.ToAddress # "ok"

\* C4: for an intent with a malformed key (bad encoding or wrong length) or a
\* malformed address no submission call is issued, and the result delivered
\* is a failure from before the submission (error set, no signature, no
\* status).
C4_MalformedNeverSubmitted ==
    \A i \in Workers :
      Malformed(transfers[i]) =>
        /\ nSend[i] = 0
        /\ nSent[i] = 1 => /\ wres[i].Error # "nil"
                           /\ wres[i].Signature = ""
                           /\ wres[i].Status = ""

\* what holds in every state once a status query has returned a present status
PollStopped ==
    /\ \A i \in Workers :
         presentAt[i] # 0 =>
           /\ nStatus[i] = presentAt[i]
           /\ nSent[i] = 1
           /\ lastAnswer[i] = "confirmed" =>
                wres[i].Status = "Confirmed" /\ wres[i].Error = "nil"
           /\ lastAnswer[i] = "errored" =>
                wres[i].Status = "Failed" /\ wres[i].Error = "txfailed"
    /\ \A t \in 1..Len(tasks) :
         tasks[t].presentAt # 0 =>
           /\ tasks[t].queries = tasks[t].presentAt
           /\ tasks[t].pc = "done"
           /\ tasks[t].lastAnswer = "confirmed" => tasks[t].outcome = "ok"
           /\ tasks[t].lastAnswer = "errored" => tasks[t].outcome = "txfailed"

\* no step changes the outcome or the number of queries after that
PollStaysStopped ==
    /\ \A i \in Workers :
         presentAt[i] # 0 =>
           /\ wres'[i] = wres[i]
           /\ nStatus'[i] = nStatus[i]
           /\ lastAnswer'[i] = lastAnswer[i]
    /\ \A t \in 1..Len(tasks) :
         tasks[t].presentAt # 0 => tasks'[t] = tasks[t]

\* C5: in both poll loops, when the k-th status query is the first to return
\* a present status, exactly k queries are made, the outcome is Confirmed for
\* a status without error and Rejected for one with an error, and no later
\* step queries again or changes the outcome.
C5_PollStopsAtFirstPresent ==
    [](PollStopped) /\ [][PollStaysStopped]_vars

C5_Witness ==
    \E i \in Workers :
      /\ presentAt[i] = 1
      /\ nStatus[i] = 1
      /\ lastAnswer[i] = "confirmed"
      /\ wres[i].Status = "Confirmed"
      /\ wpc[i] = "exited"

\* the observable fields of a TransferResult that tell outcomes apart
Observable(r) == <<r.Status, r.Signature, r.Error>>

\* C6: a delivered result of a transfer whose status came back with an
\* on-chain error has Status "Failed" and the on-chain error, and it differs
\* in (Status, Signature, Error) from every delivered result that ended in
\* another way (before or at submission, or on a failed status query).
C6_RejectedDistinguishable ==
    \A i \in Workers :
      (nSent[i] = 1 /\ lastAnswer[i] = "errored") =>
        /\ wres[i].Status = "Failed"
        /\ wres[i].Error = "txfailed"
        /\ wres[i].Signature # ""
        /\ \A j \in Workers :
             (nSent[j] = 1 /\ lastAnswer[j] # "errored") =>
               Observable(wres[i]) # Observable(wres[j])

C6_Witness ==
    /\ N = 2
    /\ nSent[1] = 1 /\ lastAnswer[1] = "errored"
    /\ nSent[2] = 1 /\ wres[2].Error = "send"

\* C7: for a non-empty transfer list, when main ends the exit code is 0 or 1,
\* and it is 0 exactly when every transfer's result is Confirmed.
C7_ExitZeroIffAllConfirmed ==
    (pcMain = "done" /\ N > 0) =>
       /\ ExitCode \in {0, 1}
       /\ ExitCode = 0 <=> \A i \in Workers : wres[i].Status = "Confirmed"

C7_Witness ==
    /\ pcMain = "done"
    /\ N = 2
    /\ ExitCode = 1
    /\ wres[1].Status = "Confirmed"
    /\ wres[2].Status = "Failed"

\* C8: with an empty transfer list nothing is divided by the transfer count,
\* no numeric report is printed, and a run that has ended has ended normally
\* with an explicit empty report.
C8_EmptyListEndsNormally ==
    N = 0 =>
      /\ proc # "panicked"
      /\ report # "numeric"
      /\ proc # "running" => (proc = "exit0" /\ report = "empty")

\* C9: main is past the collection loop (and so at or after the statistics)
\* only when every worker has sent its result and returned.
C9_AggregateAfterAllDelivered ==
    (PastCollect \/ report # "none") =>
       \A i \in Workers : nSent[i] = 1 /\ wpc[i] = "exited"

C9_Witness ==
    /\ N = 2
    /\ report = "numeric"
    /\ pcMain = "exit"

\* C10: a worker that was between two status queries when the operator
\* interrupted the run ends with the outcome Cancelled.
C10_CancelledWhilePolling ==
    proc = "killed" =>
      \A i \in pollingAtInterrupt : wres[i].Status = "Cancelled"

\* executeTransfer of transfer j has started and has not yet returned
InFlight(j) == wpc[j] \in {"validate", "blockhash", "send", "poll", "sleep"}

\* the results worker j can have in hand given its own transfer and the
\* answers to its own calls so far: the transfer decides the validation, the
\* calls issued and the last status answer decide the rest
OwnResults(j) ==
    LET t  == transfers[j]
        r0 == NewResult(t.Amount)
        r1 == [r0 EXCEPT !.FromAccount = AccountOf(t.FromPrivateKey)]
        r2 == [r1 EXCEPT !.ToAccount = "destination"]
        r3 == [r2 EXCEPT !.Signature = "sig"]
        d  == Elapsed(nStatus[j])
    IN  CASE wpc[j] \in {"idle", "validate"} -> {r0}
          [] t.FromPrivateKey = "badEncoding" -> {[r0 EXCEPT !.Error = "decode"]}
          [] t.ToAddress = "bad" -> {[r1 EXCEPT !.Error = "address"]}
          [] nBlockhash[j] = 0 -> {r2}
          [] nSend[j] = 0 ->
               IF InFlight(j) THEN {r2}
               ELSE {[r2 EXCEPT !.Error = e] : e \in {"blockhash", "create", "sign"}}
          [] nStatus[j] = 0 ->
               IF InFlight(j) THEN {r3} ELSE {[r2 EXCEPT !.Error = "send"]}
          [] lastAnswer[j] = "absent" -> {r3}
          [] lastAnswer[j] = "error" -> {[r3 EXCEPT !.Error = "status"]}
          [] lastAnswer[j] = "errored" ->
               {[r3 EXCEPT !.Status = "Failed", !.Error = "txfailed",
                           !.ProcessingTime = d]}
          [] lastAnswer[j] = "confirmed" ->
               {[r3 EXCEPT !.Status = "Confirmed", !.ProcessingTime = d]}

\* a worker in flight can take its next step, holds a result determined by
\* its own transfer and answers, and has delivered it once it has returned
WorkersIndependent ==
    \A j \in Workers :
      /\ InFlight(j) => /\ ENABLED WorkerStep(j)
                        /\ proc = "running" /\ ~closed /\ Len(results) < N
      /\ wres[j] \in OwnResults(j)
      /\ Returned(j) => \E k \in 1..(Len(results) + Len(allResults)) :
                           (results \o allResults)[k] = wres[j]

\* C12: at every point of every run, whatever the other workers do (fail at
\* any step, or stay in the status loop), a worker that has started and not
\* yet returned can always
\* take its next step, its send included (the process has not ended, the
\* channel is neither full nor closed); what a worker has in hand and what
\* it delivers is determined by its own transfer and the answers to its own
\* calls; and a worker that has returned has delivered that result.
C12_WorkersIndependent == []WorkersIndependent

C12_Witness ==
    /\ N = 2
    /\ \E i \in Workers : \E j \in Workers \ {i} :
         /\ wpc[i] = "sleep" /\ nStatus[i] = MaxQueries
         /\ wres[j].Status = "Confirmed" /\ wpc[j] = "exited"
         /\ j \in { k \in Workers : \E m \in 1..Len(allResults) :
                                       allResults[m] = wres[k] }

\* C13: in both programs, for every transfer the gateway receives at most
\* one blockhash fetch and at most one submission call (and a submission only
\* after the fetch), however many status queries are made and however the
\* transfer ends.
C13_NeverResubmitted ==
    /\ \A i \in Workers :
         /\ nBlockhash[i] <= 1
         /\ nSend[i] <= nBlockhash[i]
    /\ \A t \in 1..Len(tasks) :
         /\ tasks[t].nBlockhash <= 1
         /\ tasks[t].nSend <= tasks[t].nBlockhash

C13_Witness ==
    \E i \in Workers :
      /\ nStatus[i] = MaxQueries
      /\ wres[i].Error = "status"
      /\ nSent[i] = 1
      /\ nSend[i] = 1
      /\ nBlockhash[i] = 1

\* the task outcomes of execute_single_transfer
TaskOutcomes == {"ok", "keypair", "fromaddr", "toaddr", "mismatch", "blockhash",
                 "send", "status", "txfailed", "timeout"}

\* the 0-based position in from_wallets of the source of task r
SourceIndex(r) == r.from[2] - 1

\* C14: in execute_transfers every task, and the TransferResult it evaluates
\* to whatever its outcome, carries the address of the i-th destination when
\* its source is the i-th (0-based) and i < D, and the address of the first
\* destination when i >= D; the loop fails only when there is no destination
\* at all.
C14_PairingPolicy ==
    /\ \A t \in 1..Len(tasks) :
         LET i == SourceIndex(tasks[t])
             D == Len(toWallets)
             dest == IF i < D THEN toWallets[i + 1] ELSE toWallets[1]
         IN  /\ tasks[t].to = dest.address
             /\ \A o \in TaskOutcomes :
                  LET res == TaskResult([tasks[t] EXCEPT !.outcome = o])
                  IN  res.to = dest.address /\ res.from = fromWallets[i + 1].address
    /\ cproc = "panicked" => Len(toWallets) = 0

C14_Witness ==
    /\ Len(fromWallets) = 3
    /\ Len(toWallets) = 1
    /\ ci = 3
    /\ Len(tasks) = 3
    /\ \A t \in 1..3 : tasks[t].to = toWallets[1].address /\ SourceIndex(tasks[t]) = t - 1

\* C15: execute_transfers never fails as a whole, and when it has returned
\* its vector holds exactly one TransferResult per source wallet.
C15_OneResultPerSource ==
    /\ cproc # "panicked"
    /\ cpcMain \in {"print", "done"} =>
         /\ Len(cliResults) = Len(fromWallets)
         /\ \A i \in 1..Len(fromWallets) :
              \E k \in 1..Len(cliResults) :
                 cliResults[k].from = fromWallets[i].address

\* worker j is about to issue a gateway call
AtGatewayCall(j) == wpc[j] \in {"blockhash", "send", "poll"}

GatewayCall(j) == GetBlockhash(j) \/ SendTransaction(j) \/ PollStatus(j)

\* the spawn loop is never held up, and a worker in its status loop holds up
\* no other worker's gateway call
WorkersOverlap ==
    /\ (pcMain = "spawn" /\ spawned < N) => ENABLED Spawn
    /\ \A i \in Workers : \A j \in Workers \ {i} :
         (wpc[i] \in {"poll", "sleep"} /\ AtGatewayCall(j)) => ENABLED GatewayCall(j)

\* C16: at every point of every run, main's spawn loop never waits for a
\* worker (as long as transfers remain, the next goroutine can be started
\* whatever the started ones are
\* doing), and while a worker is in its status loop every other worker that
\* is about to issue a gateway call can issue it.
C16_WorkersRunInParallel == []WorkersOverlap

\* two workers in flight at once: the first in its status loop, the second
\* has fetched its blockhash meanwhile and is about to submit
C16_Witness ==
    /\ N = 2
    /\ wpc[1] = "sleep" /\ nStatus[1] = MaxQueries
    /\ wpc[2] = "send" /\ nBlockhash[2] = 1
    /\ InFlight(1) /\ InFlight(2)

\* the elapsed times of the collected results of workers that ended Confirmed
SuccessTimes ==
    { allResults[k].ProcessingTime :
        k \in { m \in 1..Len(allResults) : allResults[m].Status = "Confirmed" } }

\* C17: when the statistics are printed and some worker ended Confirmed, the
\* minimum and maximum printed are the least and the greatest elapsed time of
\* the Confirmed workers.
C17_MinMaxOverSuccessful ==
    (report = "numeric" /\ SuccessTimes # {}) =>
       /\ minTime \in SuccessTimes /\ \A d \in SuccessTimes : minTime <= d
       /\ maxTime \in SuccessTimes /\ \A d \in SuccessTimes : d <= maxTime

\* C18: every TransferResult in the channel or collected by main, whatever
\* the exit path of executeTransfer that sent it, carries a ProcessingTime
\* that has been set (is not the zero value).
C18_ElapsedAlwaysSet ==
    \A k \in 1..(Len(results) + Len(allResults)) :
       (results \o allResults)[k].ProcessingTime > 0

\* the errors of the steps before the submission has been accepted
PrecursorErrors == {"decode", "address", "blockhash", "create", "sign", "send"}

\* each gateway call of a worker comes only after the step before it has
\* succeeded, and a result for a failure up to the submission shows no later
\* step
PipelineInOrder ==
    \A i \in Workers :
      /\ wpc[i] \in {"idle", "validate", "blockhash"} =>
            nBlockhash[i] = 0 /\ nSend[i] = 0 /\ nStatus[i] = 0
      /\ wpc[i] = "send" => nBlockhash[i] = 1 /\ nSend[i] = 0 /\ nStatus[i] = 0
      /\ wpc[i] \in {"poll", "sleep"} => nBlockhash[i] = 1 /\ nSend[i] = 1
      /\ nBlockhash[i] > 0 => /\ transfers[i].FromPrivateKey # "badEncoding"
                              /\ transfers[i].ToAddress = "ok"
      /\ nSend[i] > 0 => nBlockhash[i] = 1
      /\ nStatus[i] > 0 => nSend[i] = 1 /\ wres[i].Signature = "sig"
      /\ (nSent[i] = 1 /\ wres[i].Error \in PrecursorErrors) =>
            /\ wres[i].Signature = "" /\ wres[i].Status = ""
            /\ nStatus[i] = 0
            /\ wres[i].Error \in {"decode", "address"} => nBlockhash[i] = 0
            /\ wres[i].Error \in {"decode", "address", "blockhash", "create", "sign"} =>
                  nSend[i] = 0
            /\ wres[i].Error = "send" => nSend[i] = 1

\* C19: at every point of every run, for every worker the gateway calls
\* happen in the order blockhash fetch, submission, status queries, each only
\* after the step before has
\* succeeded (the fetch only after key and address have been accepted); a
\* result delivered for a failure of validation, fetch, build, signing or
\* submission has no signature and no status, and no later step has been
\* invoked for it: none after a failed validation, no submission after a
\* failed fetch, build or signing, and no status query after a failed
\* submission.
C19_PipelineInOrder == []PipelineInOrder

C19_Witness ==
    /\ N = 2
    /\ nSent[1] = 1 /\ wres[1].Error = "blockhash" /\ nBlockhash[1] = 1 /\ nSend[1] = 0
    /\ nSent[2] = 1 /\ wres[2].Error = "send" /\ nSend[2] = 1 /\ nStatus[2] = 0

\* what the bulk worker delivers after a failed status query
PollErrorBulk ==
    \A i \in Workers :
      lastAnswer[i] = "error" =>
        /\ Returned(i)
        /\ wres[i].Error = "status"
        /\ wres[i].Signature = "sig"
        /\ wres[i].Status = ""

\* what the CLI task evaluates to after a failed status query
PollErrorCli ==
    \A t \in 1..Len(tasks) :
      tasks[t].lastAnswer = "error" =>
        /\ tasks[t].pc = "done"
        /\ TaskResult(tasks[t]).signature = tasks[t].signature
        /\ \A o \in TaskOutcomes \ {"status"} :
             TaskResult([tasks[t] EXCEPT !.outcome = o]) # TaskResult(tasks[t])

\* C20: in both programs a failed status query ends the transfer at once (no
\* further query is made), and the result delivered carries the signature of
\* the submitted transaction and differs from the results of a confirmed
\* transfer, of a transfer that failed on chain and of a transfer that failed
\* before or at submission.
C20_PollErrorDistinct == PollErrorBulk /\ PollErrorCli

\* C11: in the block subscription program no sendTransaction call begins
\* once cancellation has occurred (main has received the signal, or
\* stream.Recv has returned an error).
C11_NoStartAfterCancellation == geyser.lateStarts = 0

\* SendTransactionWithOpts has returned a signature and no error for transfer
\* i: the goroutine is in the status loop or has made a status query
Accepted(i) ==
    nSend[i] = 1 /\ (wpc[i] \in {"poll", "sleep"} \/ nStatus[i] > 0)

\* the Signature of a worker's result is non-empty exactly when the gateway
\* has accepted its submission; every delivered result has a signature
\* exactly when its error is not one of the steps up to the submission
SignaturePresence ==
    /\ \A i \in Workers :
         /\ wres[i].Signature # "" <=> Accepted(i)
         /\ nSent[i] = 1 =>
              /\ wres[i].Error \in PrecursorErrors => ~Accepted(i)
              /\ wres[i].Error \in {"status", "txfailed", "nil"} => Accepted(i)
    /\ \A k \in 1..Len(results) :
         results[k].Signature # "" <=> results[k].Error \notin PrecursorErrors
    /\ \A k \in 1..Len(allResults) :
         allResults[k].Signature # "" <=> allResults[k].Error \notin PrecursorErrors

\* C21: at every point of every run, the Signature of a worker's result is
\* non-empty exactly when the gateway has accepted its submission, and every
\* delivered result has a signature exactly when its error is not one of the
\* steps up to the submission: a result for a failed status query or an
\* on-chain failure has it, a result for a failure before or at submission
\* has none.
C21_SignatureIffAccepted == []SignaturePresence

C21_Witness ==
    /\ N = 2
    /\ Len(allResults) = 2
    /\ \E k \in 1..2 : allResults[k].Error = "send" /\ allResults[k].Signature = ""
    /\ \E k \in 1..2 : allResults[k].Error = "status" /\ allResults[k].Signature = "sig"

\* update.GetSlot() != nil
IsSlotUpdate(u) == u.kind = "slot"

\* the slot numbers of the slot updates among the updates us, in order
SlotsOf(us) ==
    LET su == SelectSeq(us, IsSlotUpdate)
    IN  [k \in 1..Len(su) |-> su[k].Slot]

\* the goroutine is inside a sendTransaction call that has not returned
InAttempt == geyser.pcRecv \in {"blockhash", "submit"} \/ geyser.proc = "panicked"

\* the sendTransaction calls are those for the slot updates received, one
\* each, in the order received; the only slot update without its call is the
\* one just received, and the next Recv comes only after the call has returned
AttemptsInOrder ==
    LET slots == SlotsOf(geyser.received)
    IN  /\ Len(geyser.attempts) <= Len(slots)
        /\ geyser.attempts = SubSeq(slots, 1, Len(geyser.attempts))
        /\ Len(slots) - Len(geyser.attempts) =
              (IF geyser.pcRecv = "call" /\ geyser.proc # "panicked" THEN 1 ELSE 0)
        /\ Len(geyser.attempts) - Len(geyser.outcomes) = (IF InAttempt THEN 1 ELSE 0)
        /\ geyser.pcRecv \in {"cancel", "returned"} =>
              Len(geyser.outcomes) = Len(geyser.attempts)

\* C22: in the block subscription program every slot update received
\* triggers exactly one sendTransaction call, the calls are made one at a time
\* in the order of the updates, an update of another kind triggers none, and
\* no sendTransaction call ends the receive loop: the goroutine leaves the
\* loop only after stream.Recv has returned an error.
C22_OneAttemptPerSlotUpdate ==
    /\ AttemptsInOrder
    /\ geyser.proc # "panicked"

\* the goroutines that have not sent their result yet
Unsent == { i \in Workers : nSent[i] = 0 }

\* the channel has room for every result still to be sent, it is closed by
\* the closing goroutine only when every goroutine has sent and returned, and
\* main is past its loop only with the channel closed and N results collected
ChannelSafe ==
    /\ Len(results) + Len(allResults) <= N
    /\ Len(results) + Cardinality(Unsent) <= N
    /\ closed <=> pcCloser = "done"
    /\ closed => /\ wg = 0
                 /\ \A i \in Workers : nSent[i] = 1 /\ wpc[i] = "exited"
    /\ proc = "panicked" => pcMain = "stats"
    /\ PastCollect => closed /\ results = <<>> /\ Len(allResults) = N

\* C23: under every interleaving the results channel never holds more than N
\* results and always has room for every result still to be sent, so that no
\* send blocks; the channel is closed once, by the closing goroutine, and
\* only when every goroutine has sent its result and returned, so that no
\* send meets a closed channel (the only panic of the process is the one of
\* the statistics); and main leaves its loop only on the closed channel, with
\* all N results collected.
C23_ChannelSafeCollection == []ChannelSafe

\* both results are in the channel, which is full, and the channel has been
\* closed before main has received any of them
C23_Witness ==
    /\ N = 2
    /\ Len(results) = 2
    /\ closed
    /\ allResults = <<>>

TypeOK ==
    /\ proc \in {"off", "running", "exit0", "exit1", "panicked", "killed"}
    /\ wg \in 0..MaxN
    /\ Len(results) <= N

====
